---- MODULE Spec2Model ----
(***************************************************************************)
(* The interactive raster mask editor of src/MaskingCanvas.tsx as a state  *)
(* machine: the gesture flags, the stroke's last point, the mask bitmap    *)
(* (the canvas), the undo/redo history of bitmap snapshots, the viewport   *)
(* transform and the brush settings.  One action per event handler.        *)
(*                                                                         *)
(* Numbers.  Lengths are whole pixels.  Transform.scale is kept in         *)
(* thousandths (ScaleOne = 1.0); products and quotients of the code's      *)
(* floating-point arithmetic are rounded to the nearest unit.  The bitmap  *)
(* is observed at the pixels of SamplePixels; a pixel's value is its alpha *)
(* in 0..AlphaLevels.                                                      *)
(***************************************************************************)
EXTENDS Integers, Sequences, FiniteSets, TLC

VARIABLES
    isDrawing,        \* isDrawingRef.current
    isPanning,        \* isPanningRef.current
    lastPoint,        \* lastPointRef.current: <<>> is null, else <<x, y>>
    history,          \* historyRef.current: [stack, index]
    historyControls,  \* React state: [canUndo, canRedo]
    canvas,           \* the <canvas>: [width, height, data]
    transform,        \* React state: [scale, offsetX, offsetY]
    brushSize,        \* React state
    isErasing,        \* React state
    brushOpacity,     \* React state, in percent
    imageSrc,         \* the imageSrc prop
    loading,          \* images whose load is in flight (onload not yet run)
    imageEl,          \* the <img> element: [naturalWidth, naturalHeight]
    container,        \* containerRef.current.getBoundingClientRect()
    savedMask,        \* the raster last handed to onSave, or NoMask
    srcChanges,       \* number of changes of the imageSrc prop so far
    viewOps,          \* number of zoom and pan steps taken so far
    isAuthenticated,  \* App state
    originalImages,   \* App state: the uploaded images, in order
    editHistory,      \* App state: [past, present, future]
    generatedVideo,   \* App state: whether generatedVideo.blob is set
    savedSession,     \* App state: the session offered for restore, or NoSession
    submission,       \* the handleSubmit waiting for its edit calls, or NoSubmission
    submits,          \* number of submits so far
    autoSaveTimeout,  \* the pending autosave timer (the session its callback
                      \* has captured), or NoTimer
    saving,           \* autosave callbacks suspended in blobToDataURL
    storage           \* localStorage[AUTOSAVE_KEY], or NoSession

vars == <<isDrawing, isPanning, lastPoint, history, historyControls, canvas,
          transform, brushSize, isErasing, brushOpacity, imageSrc, loading,
          imageEl, container, savedMask, srcChanges, viewOps,
          isAuthenticated, originalImages, editHistory, generatedVideo,
          savedSession, submission, submits, autoSaveTimeout, saving, storage>>

(***************************************************************************)
(* Bounds of the exploration.                                              *)
(***************************************************************************)
MaxSteps == 3         \* history entries plus zoom and pan steps explored
AlphaLevels == 2      \* alpha resolution of a pixel (the canvas has 255)
MaxSrcChanges == 1    \* changes of the imageSrc prop explored
MaxZoomSteps == 17    \* wheel steps in one direction before SpecView starts
MaxSubmits == 3       \* submits of the host application explored

(***************************************************************************)
(* Program constants.                                                      *)
(***************************************************************************)
ScaleOne == 1000                 \* the scale 1, in thousandths
MIN_SCALE == 200                 \* 0.2
MAX_SCALE == 5000                \* 5
zoomFactor == 1100               \* 1.1
DefaultBrushSize == 40
DefaultBrushOpacity == 50        \* 0.5
DefaultCanvasWidth == 300        \* a <canvas> without attributes is 300x150
DefaultCanvasHeight == 150

\* The bounding rectangle of the container Spec explores.
ContainerRect == [left |-> 8, top |-> 4, width |-> 100, height |-> 100]

\* The images the host may hand to the editor.
Images == { [naturalWidth |-> 100, naturalHeight |-> 50],
            [naturalWidth |-> 50, naturalHeight |-> 50] }

\* The images and the containers of the viewport specification SpecView:
\* those of Spec, an image that fits a container of 400 exactly, and an
\* image six times as wide as the container of Spec.
ViewImages == Images \cup { [naturalWidth |-> 400, naturalHeight |-> 400],
                            [naturalWidth |-> 600, naturalHeight |-> 300] }

Containers == { ContainerRect,
                [left |-> 8, top |-> 4, width |-> 400, height |-> 400] }

\* The pixels of the bitmap the model observes.
SamplePixels == { <<25, 25>>, <<75, 25>> }

\* Pointer positions (clientX, clientY) of pointer events.
ClientPoints == { <<33, 54>>, <<83, 54>> }

\* Pointer positions of wheel events.
WheelPoints == { <<33, 54>> }

\* Positions of the brush size slider (5 to 150) and of the opacity slider
\* (10 to 100 percent in steps of 5) that SpecStroke and SpecBrush explore.
BrushSizes == { 20, DefaultBrushSize }

Opacities == { DefaultBrushOpacity, 100 }

\* The uploads the host application is given: a batch of two images, and a
\* single image.
Uploads == { << "a", "b" >>, << "c" >> }

\* e.button of a pointerdown: 0 is the primary button.
Buttons == { 0, 2 }

\* Keyboard events: the pan-modifier, the undo and redo shortcuts, another key.
Keys == { "Space", "CtrlZ", "CtrlY", "Other" }

NoPoint == <<>>

\* onSave has not been called.
NoMask == <<>>

\* No autosaved session; no pending autosave timer; no submit in flight.
NoSession == <<>>
NoTimer == <<>>
NoSubmission == <<>>

RoundDiv(a, b) == (2 * a + b) \div (2 * b)

Min(a, b) == IF a <= b THEN a ELSE b

(***************************************************************************)
(* The bitmap.                                                             *)
(***************************************************************************)
SamplesIn(w, h) == { s \in SamplePixels : s[1] < w /\ s[2] < h }

\* A fully transparent bitmap of the given size (a canvas after its width or
\* height is set, or after clearRect over its whole area).
BlankBitmap(w, h) ==
    [width |-> w, height |-> h, data |-> [s \in SamplesIn(w, h) |-> 0]]

IsBlank(bm) == \A s \in DOMAIN bm.data : bm.data[s] = 0

\* context.getImageData(0, 0, canvas.width, canvas.height): a copy.  Both
\* getImageData and putImageData are taken to copy alpha values exactly; the
\* rounding of a canvas that stores premultiplied colour is below the
\* resolution of the model.
getImageData(cv) == [width |-> cv.width, height |-> cv.height, data |-> cv.data]

\* context.clearRect(0, 0, w, h); context.putImageData(img, 0, 0)
putImageData(cv, img) ==
    [cv EXCEPT !.data = [s \in DOMAIN cv.data |->
                            IF s \in DOMAIN img.data THEN img.data[s] ELSE 0]]

(***************************************************************************)
(* HistoryStack (historyRef, historyControls).                             *)
(***************************************************************************)
\* updateHistoryControls: the value handed to setHistoryControls.
updateHistoryControls(h) ==
    [canUndo |-> h.index > 0, canRedo |-> h.index < Len(h.stack) - 1]

\* saveHistory without the slice that drops the undone entries.
saveHistory_NoTruncate(h, cv) ==
    LET newStack == Append(h.stack, getImageData(cv))
    IN  [stack |-> newStack, index |-> Len(newStack) - 1]

\* saveHistory with the cursor set to the length instead of the last index.
saveHistory_IndexIsLength(h, cv) ==
    LET newStack == Append(SubSeq(h.stack, 1, h.index + 1), getImageData(cv))
    IN  [stack |-> newStack, index |-> Len(newStack)]

\* saveHistory: the new historyRef.current, given the live canvas.
saveHistory(h, cv) ==
    LET newStack == Append(SubSeq(h.stack, 1, h.index + 1), getImageData(cv))
    IN  [stack |-> newStack, index |-> Len(newStack) - 1]

\* The exploration budget: a commit, a zoom or a pan step is explored while
\* the history's length (counted as 1 while it is empty) plus the viewport
\* steps taken stays within MaxSteps.
CanCommit == history.index + 2 + viewOps <= MaxSteps

CanMoveView ==
    (IF history.stack = <<>> THEN 1 ELSE Len(history.stack)) + viewOps < MaxSteps

\* handleUndo moving the cursor without replacing the live bitmap.
handleUndo_StaleCanvas(h, hc, cv) ==
    IF h.index > 0
    THEN LET newHistory == [h EXCEPT !.index = h.index - 1]
         IN  [history |-> newHistory,
              historyControls |-> updateHistoryControls(newHistory),
              canvas |-> cv]
    ELSE [history |-> h, historyControls |-> hc, canvas |-> cv]

\* handleUndo clearing the canvas before it tests the cursor.
handleUndo_ClearsFirst(h, hc, cv) ==
    IF h.index > 0
    THEN LET newIndex == h.index - 1
             newHistory == [h EXCEPT !.index = newIndex]
         IN  [history |-> newHistory,
              historyControls |-> updateHistoryControls(newHistory),
              canvas |-> putImageData(cv, h.stack[newIndex + 1])]
    ELSE [history |-> h, historyControls |-> hc,
          canvas |-> BlankBitmap(cv.width, cv.height)]

\* handleUndo: the history, the controls and the canvas it leaves.
handleUndo(h, hc, cv) ==
    IF h.index > 0
    THEN LET newIndex == h.index - 1
             newHistory == [h EXCEPT !.index = newIndex]
         IN  [history |-> newHistory,
              historyControls |-> updateHistoryControls(newHistory),
              canvas |-> putImageData(cv, h.stack[newIndex + 1])]
    ELSE [history |-> h, historyControls |-> hc, canvas |-> cv]

\* handleRedo moving the cursor without replacing the live bitmap.
handleRedo_StaleCanvas(h, hc, cv) ==
    IF h.index < Len(h.stack) - 1
    THEN LET newHistory == [h EXCEPT !.index = h.index + 1]
         IN  [history |-> newHistory,
              historyControls |-> updateHistoryControls(newHistory),
              canvas |-> cv]
    ELSE [history |-> h, historyControls |-> hc, canvas |-> cv]

\* handleRedo: the history, the controls and the canvas it leaves.
handleRedo(h, hc, cv) ==
    IF h.index < Len(h.stack) - 1
    THEN LET newIndex == h.index + 1
             newHistory == [h EXCEPT !.index = newIndex]
         IN  [history |-> newHistory,
              historyControls |-> updateHistoryControls(newHistory),
              canvas |-> putImageData(cv, h.stack[newIndex + 1])]
    ELSE [history |-> h, historyControls |-> hc, canvas |-> cv]

\* The editor takes the history, controls and canvas of r.
Becomes(r) ==
    /\ history' = r.history
    /\ historyControls' = r.historyControls
    /\ canvas' = r.canvas

(***************************************************************************)
(* ViewportTransform.                                                      *)
(***************************************************************************)
\* resetView without the cap at scale 1.
resetView_NoCap(t, img, rect) ==
    IF img.naturalWidth = 0 \/ img.naturalHeight = 0 THEN t
    ELSE LET scaleX == RoundDiv(rect.width * ScaleOne, img.naturalWidth)
             scaleY == RoundDiv(rect.height * ScaleOne, img.naturalHeight)
             initialScale == Min(scaleX, scaleY)
         IN  [scale |-> initialScale,
              offsetX |-> RoundDiv(rect.width * ScaleOne
                                   - img.naturalWidth * initialScale, 2 * ScaleOne),
              offsetY |-> RoundDiv(rect.height * ScaleOne
                                   - img.naturalHeight * initialScale, 2 * ScaleOne)]

\* resetView: the transform it sets in a container of bounding rectangle
\* rect, or the current one on its early return.
resetView(t, img, rect) ==
    IF img.naturalWidth = 0 \/ img.naturalHeight = 0 THEN t
    ELSE LET scaleX == RoundDiv(rect.width * ScaleOne, img.naturalWidth)
             scaleY == RoundDiv(rect.height * ScaleOne, img.naturalHeight)
             initialScale == Min(Min(scaleX, scaleY), ScaleOne)
         IN  [scale |-> initialScale,
              offsetX |-> RoundDiv(rect.width * ScaleOne
                                   - img.naturalWidth * initialScale, 2 * ScaleOne),
              offsetY |-> RoundDiv(rect.height * ScaleOne
                                   - img.naturalHeight * initialScale, 2 * ScaleOne)]

\* getTransformedPoint: client coordinates to image (canvas) coordinates.
getTransformedPoint(t, c) ==
    << RoundDiv((c[1] - container.left - t.offsetX) * ScaleOne, t.scale),
       RoundDiv((c[2] - container.top - t.offsetY) * ScaleOne, t.scale) >>

\* handleWheel taking the client position for the position in the container.
handleWheel_ClientAnchor(t, c, zoomIn, rect) ==
    LET newScale == IF zoomIn THEN RoundDiv(t.scale * zoomFactor, ScaleOne)
                              ELSE RoundDiv(t.scale * ScaleOne, zoomFactor)
        mouseX == c[1]
        mouseY == c[2]
    IN  IF newScale < MIN_SCALE \/ newScale > MAX_SCALE THEN t
        ELSE [scale |-> newScale,
              offsetX |-> mouseX - RoundDiv((mouseX - t.offsetX) * newScale, t.scale),
              offsetY |-> mouseY - RoundDiv((mouseY - t.offsetY) * newScale, t.scale)]

\* handleWheel zooming out by the factor 2 - zoomFactor instead of 1 / zoomFactor.
handleWheel_ZoomOutByDifference(t, c, zoomIn, rect) ==
    LET newScale == IF zoomIn THEN RoundDiv(t.scale * zoomFactor, ScaleOne)
                              ELSE RoundDiv(t.scale * (2 * ScaleOne - zoomFactor), ScaleOne)
        mouseX == c[1] - rect.left
        mouseY == c[2] - rect.top
    IN  IF newScale < MIN_SCALE \/ newScale > MAX_SCALE THEN t
        ELSE [scale |-> newScale,
              offsetX |-> mouseX - RoundDiv((mouseX - t.offsetX) * newScale, t.scale),
              offsetY |-> mouseY - RoundDiv((mouseY - t.offsetY) * newScale, t.scale)]

\* handleWheel: the transform after a wheel event at client point c in a
\* container of bounding rectangle rect; zoomIn is deltaY < 0.
handleWheel(t, c, zoomIn, rect) ==
    LET newScale == IF zoomIn THEN RoundDiv(t.scale * zoomFactor, ScaleOne)
                              ELSE RoundDiv(t.scale * ScaleOne, zoomFactor)
        mouseX == c[1] - rect.left
        mouseY == c[2] - rect.top
    IN  IF newScale < MIN_SCALE \/ newScale > MAX_SCALE THEN t
        ELSE [scale |-> newScale,
              offsetX |-> mouseX - RoundDiv((mouseX - t.offsetX) * newScale, t.scale),
              offsetY |-> mouseY - RoundDiv((mouseY - t.offsetY) * newScale, t.scale)]

(***************************************************************************)
(* StrokeRenderer.                                                         *)
(***************************************************************************)
\* The point of the segment p1-p2 nearest to s.
Nearest(s, p1, p2) ==
    LET dx == p2[1] - p1[1]
        dy == p2[2] - p1[2]
        dd == dx * dx + dy * dy
        vd == (s[1] - p1[1]) * dx + (s[2] - p1[2]) * dy
    IN  IF dd = 0 \/ vd <= 0 THEN p1
        ELSE IF vd >= dd THEN p2
        ELSE << p1[1] + RoundDiv(dx * vd, dd), p1[2] + RoundDiv(dy * vd, dd) >>

\* Whether a round-capped line p1-p2 of the given width covers pixel s.
Covers(s, p1, p2, lineWidth) ==
    LET n == Nearest(s, p1, p2)
        ex == s[1] - n[1]
        ey == s[2] - n[2]
    IN  4 * (ex * ex + ey * ey) <= lineWidth * lineWidth

\* source-over of the brush colour at the given alpha onto dst.
SourceOver(dst, srcAlpha) == srcAlpha + RoundDiv(dst * (AlphaLevels - srcAlpha), AlphaLevels)

\* destination-out: dst scaled by the complement of the source alpha.
DestinationOut(dst, srcAlpha) == RoundDiv(dst * (AlphaLevels - srcAlpha), AlphaLevels)

\* drawLine with a line width of brushSize whatever the scale.
drawLine_ScreenWidth(cv, p1, p2) ==
    LET lineWidth == brushSize
        srcAlpha == IF isErasing THEN AlphaLevels
                    ELSE RoundDiv(brushOpacity * AlphaLevels, 100)
    IN  [cv EXCEPT !.data = [s \in DOMAIN cv.data |->
            IF Covers(s, p1, p2, lineWidth)
            THEN IF isErasing THEN DestinationOut(cv.data[s], srcAlpha)
                              ELSE SourceOver(cv.data[s], srcAlpha)
            ELSE cv.data[s]]]

\* drawLine erasing at the brush opacity.
drawLine_ErasesAtBrushOpacity(cv, p1, p2) ==
    LET lineWidth == RoundDiv(brushSize * ScaleOne, transform.scale)
        srcAlpha == RoundDiv(brushOpacity * AlphaLevels, 100)
    IN  [cv EXCEPT !.data = [s \in DOMAIN cv.data |->
            IF Covers(s, p1, p2, lineWidth)
            THEN IF isErasing THEN DestinationOut(cv.data[s], srcAlpha)
                              ELSE SourceOver(cv.data[s], srcAlpha)
            ELSE cv.data[s]]]

\* drawLine: the canvas after stroking p1-p2 with the current brush.
drawLine(cv, p1, p2) ==
    LET lineWidth == RoundDiv(brushSize * ScaleOne, transform.scale)
        srcAlpha == IF isErasing THEN AlphaLevels
                    ELSE RoundDiv(brushOpacity * AlphaLevels, 100)
    IN  [cv EXCEPT !.data = [s \in DOMAIN cv.data |->
            IF Covers(s, p1, p2, lineWidth)
            THEN IF isErasing THEN DestinationOut(cv.data[s], srcAlpha)
                              ELSE SourceOver(cv.data[s], srcAlpha)
            ELSE cv.data[s]]]

(***************************************************************************)
(* The initial state: the component is mounted, the effect has requested   *)
(* the image, and its onload has not run yet.                              *)
(***************************************************************************)
InitMaskingCanvas ==
    /\ isDrawing = FALSE
    /\ isPanning = FALSE
    /\ lastPoint = NoPoint
    /\ history = [stack |-> <<>>, index |-> -1]
    /\ historyControls = [canUndo |-> FALSE, canRedo |-> FALSE]
    /\ canvas = BlankBitmap(DefaultCanvasWidth, DefaultCanvasHeight)
    /\ transform = [scale |-> ScaleOne, offsetX |-> 0, offsetY |-> 0]
    /\ brushSize = DefaultBrushSize
    /\ isErasing = FALSE
    /\ brushOpacity = DefaultBrushOpacity
    /\ imageSrc \in Images
    /\ loading = {imageSrc}
    /\ imageEl = [naturalWidth |-> 0, naturalHeight |-> 0]
    /\ container = ContainerRect
    /\ savedMask = NoMask
    /\ srcChanges = 0
    /\ viewOps = 0

\* The host application as constructed, signed out, with nothing autosaved.
InitHost ==
    /\ isAuthenticated = FALSE
    /\ originalImages = <<>>
    /\ editHistory = [past |-> <<>>, present |-> <<>>, future |-> <<>>]
    /\ generatedVideo = FALSE
    /\ savedSession = NoSession
    /\ submission = NoSubmission
    /\ submits = 0
    /\ autoSaveTimeout = NoTimer
    /\ saving = {}
    /\ storage = NoSession

Init == InitMaskingCanvas /\ InitHost

gestureVars == <<isDrawing, isPanning, lastPoint>>
historyVars == <<history, historyControls>>
brushVars == <<brushSize, isErasing, brushOpacity>>
loadVars == <<imageSrc, loading, imageEl>>
hostVars == <<container, savedMask, srcChanges>>
appVars == <<isAuthenticated, originalImages, editHistory, generatedVideo,
             savedSession, submission, submits, autoSaveTimeout, saving, storage>>

(***************************************************************************)
(* Loading.                                                                *)
(***************************************************************************)
\* image.onload clearing the canvas at the size it has.
OnLoad_KeepsCanvasSize(img) ==
    /\ img \in loading
    /\ loading' = loading \ {img}
    /\ imageEl' = img
    /\ canvas' = BlankBitmap(canvas.width, canvas.height)
    /\ history' = [stack |-> << getImageData(canvas') >>, index |-> 0]
    /\ historyControls' = updateHistoryControls(history')
    /\ transform' = resetView(transform, imageEl', container)
    /\ UNCHANGED <<gestureVars, brushVars, imageSrc, hostVars, appVars, viewOps>>

\* image.onload resizing the canvas and leaving the history as it was.
OnLoad_KeepsHistory(img) ==
    /\ img \in loading
    /\ loading' = loading \ {img}
    /\ imageEl' = img
    /\ canvas' = BlankBitmap(img.naturalWidth, img.naturalHeight)
    /\ transform' = resetView(transform, imageEl', container)
    /\ UNCHANGED <<gestureVars, historyVars, brushVars, imageSrc, hostVars, appVars, viewOps>>

\* image.onload
OnLoad(img) ==
    /\ img \in loading
    /\ loading' = loading \ {img}
    /\ imageEl' = img
    /\ canvas' = BlankBitmap(img.naturalWidth, img.naturalHeight)
    /\ history' = [stack |-> << getImageData(canvas') >>, index |-> 0]
    /\ historyControls' = updateHistoryControls(history')
    /\ transform' = resetView(transform, imageEl', container)
    /\ UNCHANGED <<gestureVars, brushVars, imageSrc, hostVars, appVars, viewOps>>

(***************************************************************************)
(* GestureController: pointer events.                                      *)
(***************************************************************************)
\* handlePointerDown
handlePointerDown(c, button) ==
    IF button # 0 THEN UNCHANGED <<gestureVars, canvas>>
    ELSE IF isPanning
    THEN /\ lastPoint' = c
         /\ UNCHANGED <<isDrawing, isPanning, canvas>>
    ELSE LET point == getTransformedPoint(transform, c) IN
         /\ isDrawing' = TRUE
         /\ lastPoint' = point
         /\ canvas' = drawLine(canvas, point, point)
         /\ UNCHANGED isPanning

PointerDown(c, button) ==
    /\ handlePointerDown(c, button)
    /\ UNCHANGED <<historyVars, transform, brushVars, loadVars, hostVars, appVars, viewOps>>

\* handlePointerMove
handlePointerMove(c) ==
    IF isPanning /\ lastPoint # NoPoint
    THEN LET dx == c[1] - lastPoint[1]
             dy == c[2] - lastPoint[2]
         IN  /\ transform' = [transform EXCEPT !.offsetX = @ + dx, !.offsetY = @ + dy]
             /\ lastPoint' = c
             /\ viewOps' = viewOps + 1
             /\ UNCHANGED canvas
    ELSE IF isDrawing /\ lastPoint # NoPoint
    THEN LET currentPoint == getTransformedPoint(transform, c) IN
         /\ canvas' = drawLine(canvas, lastPoint, currentPoint)
         /\ lastPoint' = currentPoint
         /\ UNCHANGED <<transform, viewOps>>
    ELSE UNCHANGED <<transform, lastPoint, canvas, viewOps>>

PointerMove(c) ==
    /\ (isPanning /\ lastPoint # NoPoint) => CanMoveView
    /\ handlePointerMove(c)
    /\ UNCHANGED <<isDrawing, isPanning, historyVars, brushVars, loadVars, hostVars, appVars>>

\* handlePointerUp committing whether or not a stroke is in progress.
handlePointerUp_AlwaysCommits ==
    /\ history' = saveHistory(history, canvas)
    /\ historyControls' = updateHistoryControls(history')
    /\ isDrawing' = FALSE
    /\ lastPoint' = NoPoint

\* handlePointerUp, the handler of pointerup and of pointerleave
handlePointerUp ==
    /\ IF isDrawing
       THEN /\ history' = saveHistory(history, canvas)
            /\ historyControls' = updateHistoryControls(history')
       ELSE UNCHANGED historyVars
    /\ isDrawing' = FALSE
    /\ lastPoint' = NoPoint

PointerUp ==
    /\ isDrawing => CanCommit
    /\ handlePointerUp
    /\ UNCHANGED <<isPanning, canvas, transform, brushVars, loadVars, hostVars, appVars, viewOps>>

PointerLeave ==
    /\ isDrawing => CanCommit
    /\ handlePointerUp
    /\ UNCHANGED <<isPanning, canvas, transform, brushVars, loadVars, hostVars, appVars, viewOps>>

\* onWheel ending the gesture in progress.
Wheel_EndsGesture(c, zoomIn) ==
    /\ CanMoveView
    /\ transform' = handleWheel(transform, c, zoomIn, container)
    /\ viewOps' = IF transform' = transform THEN viewOps ELSE viewOps + 1
    /\ isDrawing' = FALSE
    /\ lastPoint' = NoPoint
    /\ UNCHANGED <<isPanning, historyVars, canvas, brushVars, loadVars, hostVars, appVars>>

\* onWheel
Wheel(c, zoomIn) ==
    /\ CanMoveView
    /\ transform' = handleWheel(transform, c, zoomIn, container)
    /\ viewOps' = IF transform' = transform THEN viewOps ELSE viewOps + 1
    /\ UNCHANGED <<gestureVars, historyVars, canvas, brushVars, loadVars, hostVars, appVars>>

(***************************************************************************)
(* GestureController: keyboard events (window listeners).                  *)
(***************************************************************************)
\* handleKeyDown
handleKeyDown(key) ==
    IF key = "Space" /\ ~isPanning
    THEN /\ isPanning' = TRUE
         /\ UNCHANGED <<canvas, historyVars>>
    ELSE IF key = "CtrlZ"
    THEN /\ Becomes(handleUndo(history, historyControls, canvas))
         /\ UNCHANGED isPanning
    ELSE IF key = "CtrlY"
    THEN /\ Becomes(handleRedo(history, historyControls, canvas))
         /\ UNCHANGED isPanning
    ELSE UNCHANGED <<isPanning, canvas, historyVars>>

KeyDown(key) ==
    /\ handleKeyDown(key)
    /\ UNCHANGED <<isDrawing, lastPoint, transform, brushVars, loadVars, hostVars, appVars, viewOps>>

\* handleKeyUp
handleKeyUp(key) ==
    IF key = "Space"
    THEN /\ isPanning' = FALSE
         /\ lastPoint' = NoPoint
    ELSE UNCHANGED <<isPanning, lastPoint>>

KeyUp(key) ==
    /\ handleKeyUp(key)
    /\ UNCHANGED <<isDrawing, historyVars, canvas, transform, brushVars,
                   loadVars, hostVars, appVars, viewOps>>

(***************************************************************************)
(* The toolbar.                                                            *)
(***************************************************************************)
\* handleZoom: a wheel event made up at (width / 2, height / 2).
handleZoom(t, zoomIn, rect) ==
    handleWheel(t, << rect.width \div 2, rect.height \div 2 >>, zoomIn, rect)

ZoomClick(zoomIn) ==
    /\ CanMoveView
    /\ transform' = handleZoom(transform, zoomIn, container)
    /\ viewOps' = IF transform' = transform THEN viewOps ELSE viewOps + 1
    /\ UNCHANGED <<gestureVars, historyVars, canvas, brushVars, loadVars, hostVars, appVars>>

\* The Reset View button, and the window's resize listener.
ResetView ==
    /\ transform' = resetView(transform, imageEl, container)
    /\ UNCHANGED <<gestureVars, historyVars, canvas, brushVars, loadVars, hostVars, appVars, viewOps>>

\* The window's resize listener after the container has taken the bounding
\* rectangle rect.
Resize(rect) ==
    /\ rect # container
    /\ container' = rect
    /\ transform' = resetView(transform, imageEl, container')
    /\ UNCHANGED <<gestureVars, historyVars, canvas, brushVars, loadVars,
                   savedMask, srcChanges, appVars, viewOps>>

\* The Undo button; it is disabled while historyControls.canUndo is false.
UndoClick ==
    /\ historyControls.canUndo
    /\ Becomes(handleUndo(history, historyControls, canvas))
    /\ UNCHANGED <<gestureVars, transform, brushVars, loadVars, hostVars, appVars, viewOps>>

\* The Redo button; it is disabled while historyControls.canRedo is false.
RedoClick ==
    /\ historyControls.canRedo
    /\ Becomes(handleRedo(history, historyControls, canvas))
    /\ UNCHANGED <<gestureVars, transform, brushVars, loadVars, hostVars, appVars, viewOps>>

\* handleClear starting the history over with the blank bitmap.
handleClear_ResetsHistory ==
    /\ canvas' = BlankBitmap(canvas.width, canvas.height)
    /\ history' = [stack |-> << getImageData(canvas') >>, index |-> 0]
    /\ historyControls' = updateHistoryControls(history')

\* handleClear without the commit.
handleClear_NoCommit ==
    /\ canvas' = BlankBitmap(canvas.width, canvas.height)
    /\ UNCHANGED historyVars

\* handleClear
handleClear ==
    /\ canvas' = BlankBitmap(canvas.width, canvas.height)
    /\ history' = saveHistory(history, canvas')
    /\ historyControls' = updateHistoryControls(history')

Clear ==
    /\ CanCommit
    /\ handleClear
    /\ UNCHANGED <<gestureVars, transform, brushVars, loadVars, hostVars, appVars, viewOps>>

\* The Draw and Erase buttons: setIsErasing.
SetIsErasing(b) ==
    /\ isErasing' = b
    /\ UNCHANGED <<gestureVars, historyVars, canvas, transform, brushSize,
                   brushOpacity, loadVars, hostVars, appVars, viewOps>>

\* The brush size slider: setBrushSize.
SetBrushSize(size) ==
    /\ brushSize' = size
    /\ UNCHANGED <<gestureVars, historyVars, canvas, transform, isErasing,
                   brushOpacity, loadVars, hostVars, appVars, viewOps>>

\* The opacity slider: setBrushOpacity.
SetBrushOpacity(opacity) ==
    /\ brushOpacity' = opacity
    /\ UNCHANGED <<gestureVars, historyVars, canvas, transform, brushSize,
                   isErasing, loadVars, hostVars, appVars, viewOps>>

\* canvas.toDataURL('image/png'): the canvas encoded as a PNG raster.
toDataURL(cv) ==
    [format |-> "image/png", width |-> cv.width, height |-> cv.height,
     data |-> cv.data]

\* handleSave, the Save Mask button; canvasRef.current is the mounted canvas.
handleSave ==
    savedMask' = toDataURL(canvas)

Save ==
    /\ handleSave
    /\ UNCHANGED <<gestureVars, historyVars, canvas, transform, brushVars,
                   loadVars, container, srcChanges, appVars, viewOps>>

(***************************************************************************)
(* The host.                                                               *)
(***************************************************************************)
\* The host hands the editor another imageSrc: the effect runs again and
\* requests the image; a load already in flight is not cancelled.
ChangeSrc(img) ==
    /\ srcChanges < MaxSrcChanges
    /\ img # imageSrc
    /\ imageSrc' = img
    /\ loading' = loading \cup {img}
    /\ srcChanges' = srcChanges + 1
    /\ UNCHANGED <<gestureVars, historyVars, canvas, transform, brushVars,
                   imageEl, container, savedMask, appVars, viewOps>>

\* The events Spec explores.  The Zoom In / Zoom Out buttons (ZoomClick) and
\* the Draw / Erase buttons (SetIsErasing) are left to the specifications of
\* the viewport and of the brush: under Spec the brush stays as constructed
\* and zooming is by the wheel.
Next ==
    \/ \E img \in Images : OnLoad(img)
    \/ \E c \in ClientPoints, b \in Buttons : PointerDown(c, b)
    \/ \E c \in ClientPoints : PointerMove(c)
    \/ PointerUp
    \/ PointerLeave
    \/ \E c \in WheelPoints, zoomIn \in BOOLEAN : Wheel(c, zoomIn)
    \/ \E key \in Keys : KeyDown(key)
    \/ \E key \in Keys : KeyUp(key)
    \/ ResetView
    \/ UndoClick
    \/ RedoClick
    \/ Clear

Spec == Init /\ [][Next]_vars

(***************************************************************************)
(* The editor under a host that changes the image: loads, reloads, strokes *)
(* and the history between them, and Save Mask.                            *)
(***************************************************************************)
\* The host unmounts the editor when onSave returns (handleMaskSave): no
\* event reaches it after a Save.
Mounted == savedMask = NoMask

NextLoad ==
    \/ \E img \in Images : Mounted /\ ChangeSrc(img)
    \/ \E img \in Images : Mounted /\ OnLoad(img)
    \/ \E c \in ClientPoints, b \in Buttons : Mounted /\ PointerDown(c, b)
    \/ \E c \in ClientPoints : Mounted /\ PointerMove(c)
    \/ Mounted /\ PointerUp
    \/ Mounted /\ UndoClick
    \/ Mounted /\ RedoClick
    \/ Mounted /\ Clear
    \/ Mounted /\ Save

SpecLoad == Init /\ [][NextLoad]_vars

(***************************************************************************)
(* The viewport: fit, resize and zoom, over images and containers of       *)
(* several sizes.  SpecView starts either as the editor is constructed, or *)
(* after the load and up to MaxZoomSteps wheel steps in one direction at   *)
(* the wheel point, and explores the zoom, fit and resize events from      *)
(* there.                                                                  *)
(***************************************************************************)
RECURSIVE Zoomed(_, _, _, _, _)
\* t after k wheel events at client point c.
Zoomed(t, c, zoomIn, k, rect) ==
    IF k = 0 THEN t
    ELSE LET next == handleWheel(t, c, zoomIn, rect)
         IN  Zoomed(next, c, zoomIn, k - 1, rect)

InitView ==
    /\ isDrawing = FALSE
    /\ isPanning = FALSE
    /\ lastPoint = NoPoint
    /\ brushSize = DefaultBrushSize
    /\ isErasing = FALSE
    /\ brushOpacity = DefaultBrushOpacity
    /\ imageSrc \in ViewImages
    /\ container \in Containers
    /\ savedMask = NoMask
    /\ srcChanges = 0
    /\ viewOps = 0
    /\ \/ /\ loading = {imageSrc}
          /\ imageEl = [naturalWidth |-> 0, naturalHeight |-> 0]
          /\ history = [stack |-> <<>>, index |-> -1]
          /\ canvas = BlankBitmap(DefaultCanvasWidth, DefaultCanvasHeight)
          /\ transform = [scale |-> ScaleOne, offsetX |-> 0, offsetY |-> 0]
       \/ /\ loading = {}
          /\ imageEl = imageSrc
          /\ canvas = BlankBitmap(imageSrc.naturalWidth, imageSrc.naturalHeight)
          /\ history = [stack |-> << getImageData(canvas) >>, index |-> 0]
          /\ \E c \in WheelPoints, zoomIn \in BOOLEAN, k \in 1..MaxZoomSteps :
                transform = Zoomed(resetView([scale |-> ScaleOne, offsetX |-> 0,
                                              offsetY |-> 0], imageSrc, container),
                                   c, zoomIn, k, container)
    /\ historyControls = [canUndo |-> FALSE, canRedo |-> FALSE]
    /\ InitHost

NextView ==
    \/ \E img \in ViewImages : OnLoad(img)
    \/ \E c \in ClientPoints, zoomIn \in BOOLEAN : Wheel(c, zoomIn)
    \/ \E zoomIn \in BOOLEAN : ZoomClick(zoomIn)
    \/ ResetView
    \/ \E rect \in Containers : Resize(rect)

SpecView == InitView /\ [][NextView]_vars

(***************************************************************************)
(* The brush: strokes drawn and erased at several opacities, on the fitted *)
(* view.                                                                   *)
(***************************************************************************)
NextBrush ==
    \/ \E img \in Images : OnLoad(img)
    \/ \E c \in ClientPoints : PointerDown(c, 0)
    \/ \E c \in ClientPoints : PointerMove(c)
    \/ PointerUp
    \/ \E b \in BOOLEAN : SetIsErasing(b)
    \/ \E opacity \in Opacities : SetBrushOpacity(opacity)

SpecBrush == Init /\ [][NextBrush]_vars

(***************************************************************************)
(* The stroke under zoom: strokes of several brush sizes, with wheel zooms *)
(* before and in the middle of them.                                       *)
(***************************************************************************)
NextStroke ==
    \/ \E img \in Images : OnLoad(img)
    \/ \E c \in ClientPoints : PointerDown(c, 0)
    \/ \E c \in ClientPoints : PointerMove(c)
    \/ PointerUp
    \/ \E c \in WheelPoints, zoomIn \in BOOLEAN : Wheel(c, zoomIn)
    \/ \E size \in BrushSizes : SetBrushSize(size)

SpecStroke == Init /\ [][NextStroke]_vars

(***************************************************************************)
(* The host application, src/App.tsx: the uploaded images, the history of  *)
(* edit results, the submit of a batch edit, and the autosave of the       *)
(* session (a debounce timer whose callback may suspend while it converts  *)
(* the generated video).  The mask editor is not mounted.                  *)
(***************************************************************************)
editorVars == <<gestureVars, historyVars, canvas, transform, brushVars,
                loadVars, hostVars, viewOps>>

EmptyEditHistory == [past |-> <<>>, present |-> <<>>, future |-> <<>>]

\* The session the autosave callback writes.  stale records that a logout or
\* a dismissal of the restore prompt has happened since the callback was
\* scheduled.
Session(images, edits, video) ==
    [originalImages |-> images, editHistory |-> edits,
     generatedVideoDataUrl |-> video, stale |-> FALSE]

\* The autosave effect after a render with these values: its cleanup has
\* cleared the timer, and it sets a new one unless there is nothing to save
\* or the restore prompt is shown.
autoSaveEffect(images, edits, video, saved) ==
    IF images = <<>> \/ saved # NoSession THEN NoTimer
    ELSE Session(images, edits, video)

\* What editImageWithGemini resolves to for an image, in a given submit.
editImageWithGemini(image, round) == [editOf |-> image, round |-> round]

\* The results of Promise.allSettled over the images, fulfilled for the
\* indices of ok.
allSettled(images, round, ok) ==
    [i \in 1..Len(images) |->
        IF i \in ok
        THEN [status |-> "fulfilled", value |-> editImageWithGemini(images[i], round)]
        ELSE [status |-> "rejected"]]

IsFulfilled(r) == r.status = "fulfilled"

\* results.filter(fulfilled).map(r => r.value)
successfulEdits(results) ==
    LET fulfilled == SelectSeq(results, IsFulfilled)
    IN  [i \in 1..Len(fulfilled) |-> fulfilled[i].value]

\* The updater handleSubmit gives setEditHistory.
submitEdits(h, edits) ==
    [past |-> IF Len(h.present) > 0 THEN Append(h.past, h.present) ELSE h.past,
     present |-> edits,
     future |-> <<>>]

\* handleUndo (App) keeping the future as it was.
undoEdit_DropsPresent(h) ==
    IF Len(h.past) = 0 THEN h
    ELSE [past |-> SubSeq(h.past, 1, Len(h.past) - 1),
          present |-> h.past[Len(h.past)],
          future |-> h.future]

\* handleUndo (App): the updater it gives setEditHistory.
undoEdit(h) ==
    IF Len(h.past) = 0 THEN h
    ELSE [past |-> SubSeq(h.past, 1, Len(h.past) - 1),
          present |-> h.past[Len(h.past)],
          future |-> << h.present >> \o h.future]

\* handleRedo (App): the updater it gives setEditHistory.
redoEdit(h) ==
    IF Len(h.future) = 0 THEN h
    ELSE [past |-> Append(h.past, h.present),
          present |-> h.future[1],
          future |-> Tail(h.future)]

\* The mount effect has read localStorage: a stored session with images is
\* offered for restore.
InitApp ==
    /\ InitMaskingCanvas
    /\ isAuthenticated = FALSE
    /\ originalImages = <<>>
    /\ editHistory = EmptyEditHistory
    /\ generatedVideo = FALSE
    /\ storage \in { NoSession } \cup { Session(u, EmptyEditHistory, FALSE) : u \in Uploads }
    /\ savedSession = storage
    /\ submission = NoSubmission
    /\ submits = 0
    /\ autoSaveTimeout = NoTimer
    /\ saving = {}

handleLoginSuccess ==
    /\ ~isAuthenticated
    /\ isAuthenticated' = TRUE
    /\ UNCHANGED <<editorVars, originalImages, editHistory, generatedVideo,
                   savedSession, submission, submits, autoSaveTimeout, saving,
                   storage>>

handleImagesUpload(imageData) ==
    /\ isAuthenticated
    /\ originalImages' = imageData
    /\ editHistory' = EmptyEditHistory
    /\ generatedVideo' = FALSE
    /\ autoSaveTimeout' = autoSaveEffect(originalImages', editHistory',
                                         generatedVideo', savedSession)
    /\ UNCHANGED <<editorVars, isAuthenticated, savedSession, submission,
                   submits, saving, storage>>

\* The submit button, enabled while no submit is in flight: handleSubmit up
\* to its await.  Animation takes one image.
SubmitStart(mode) ==
    /\ isAuthenticated
    /\ submission = NoSubmission
    /\ submits < MaxSubmits
    /\ Len(originalImages) > 0
    /\ mode = "animate" => Len(originalImages) = 1
    /\ submits' = submits + 1
    /\ submission' = [images |-> originalImages, mode |-> mode, round |-> submits']
    /\ generatedVideo' = FALSE
    /\ autoSaveTimeout' = autoSaveEffect(originalImages, editHistory,
                                         generatedVideo', savedSession)
    /\ UNCHANGED <<editorVars, isAuthenticated, originalImages, editHistory,
                   savedSession, saving, storage>>

\* The sets of remote calls of the submit in flight that may be fulfilled.
Outcomes ==
    IF submission = NoSubmission THEN {}
    ELSE SUBSET (1..Len(submission.images))

\* handleSubmit after its await, with the remote calls fulfilled for the
\* indices of ok.  The autosave effect runs again when a dependency changed.
SubmitSettle(ok) ==
    /\ submission # NoSubmission
    /\ LET edits == successfulEdits(allSettled(submission.images, submission.round, ok))
       IN  /\ editHistory' = IF submission.mode = "edit" /\ Len(edits) > 0
                             THEN submitEdits(editHistory, edits)
                             ELSE editHistory
           /\ generatedVideo' = IF submission.mode = "animate" /\ ok # {}
                                THEN TRUE
                                ELSE generatedVideo
    /\ autoSaveTimeout' = IF ok = {} THEN autoSaveTimeout
                          ELSE autoSaveEffect(originalImages, editHistory',
                                              generatedVideo', savedSession)
    /\ submission' = NoSubmission
    /\ UNCHANGED <<editorVars, isAuthenticated, originalImages, savedSession,
                   submits, saving, storage>>

\* The Undo button of the edit results, disabled while past is empty.
EditUndoClick ==
    /\ isAuthenticated
    /\ Len(editHistory.past) > 0
    /\ editHistory' = undoEdit(editHistory)
    /\ autoSaveTimeout' = autoSaveEffect(originalImages, editHistory',
                                         generatedVideo, savedSession)
    /\ UNCHANGED <<editorVars, isAuthenticated, originalImages, generatedVideo,
                   savedSession, submission, submits, saving, storage>>

\* The Redo button of the edit results, disabled while future is empty.
EditRedoClick ==
    /\ isAuthenticated
    /\ Len(editHistory.future) > 0
    /\ editHistory' = redoEdit(editHistory)
    /\ autoSaveTimeout' = autoSaveEffect(originalImages, editHistory',
                                         generatedVideo, savedSession)
    /\ UNCHANGED <<editorVars, isAuthenticated, originalImages, generatedVideo,
                   savedSession, submission, submits, saving, storage>>

\* The debounce timer fires: the callback stores the session it captured, or
\* suspends at blobToDataURL when the captured session has a video.
AutoSaveFires ==
    /\ autoSaveTimeout # NoTimer
    /\ IF autoSaveTimeout.generatedVideoDataUrl
       THEN /\ saving' = saving \cup { autoSaveTimeout }
            /\ UNCHANGED storage
       ELSE /\ storage' = autoSaveTimeout
            /\ UNCHANGED saving
    /\ autoSaveTimeout' = NoTimer
    /\ UNCHANGED <<editorVars, isAuthenticated, originalImages, editHistory,
                   generatedVideo, savedSession, submission, submits>>

\* blobToDataURL resolves: a suspended callback stores its session.
AutoSaveResumes(session) ==
    /\ session \in saving
    /\ storage' = session
    /\ saving' = saving \ { session }
    /\ UNCHANGED <<editorVars, isAuthenticated, originalImages, editHistory,
                   generatedVideo, savedSession, submission, submits,
                   autoSaveTimeout>>

\* The callbacks suspended when the stored session is discarded.
Outdated(callbacks) == { [w EXCEPT !.stale = TRUE] : w \in callbacks }

\* handleLogout: clearAutoSave removes the stored session and clears the
\* timer; the state is reset, after which the autosave effect has nothing to
\* save.
handleLogout ==
    /\ isAuthenticated
    /\ isAuthenticated' = FALSE
    /\ storage' = NoSession
    /\ autoSaveTimeout' = NoTimer
    /\ saving' = Outdated(saving)
    /\ originalImages' = <<>>
    /\ editHistory' = EmptyEditHistory
    /\ generatedVideo' = FALSE
    /\ UNCHANGED <<editorVars, savedSession, submission, submits>>

\* The Dismiss button of the restore prompt: clearAutoSave, then the prompt
\* is hidden and the autosave effect runs again.
handleDismissSession ==
    /\ isAuthenticated
    /\ savedSession # NoSession
    /\ storage' = NoSession
    /\ saving' = Outdated(saving)
    /\ savedSession' = NoSession
    /\ autoSaveTimeout' = autoSaveEffect(originalImages, editHistory,
                                         generatedVideo, savedSession')
    /\ UNCHANGED <<editorVars, isAuthenticated, originalImages, editHistory,
                   generatedVideo, submission, submits>>

\* The Restore button of the restore prompt.  The sessions offered have no
\* video, so the handler does not await.
handleRestoreSession ==
    /\ isAuthenticated
    /\ savedSession # NoSession
    /\ originalImages' = savedSession.originalImages
    /\ editHistory' = savedSession.editHistory
    /\ generatedVideo' = savedSession.generatedVideoDataUrl
    /\ savedSession' = NoSession
    /\ autoSaveTimeout' = autoSaveEffect(originalImages', editHistory',
                                         generatedVideo', savedSession')
    /\ UNCHANGED <<editorVars, isAuthenticated, submission, submits, saving,
                   storage>>

NextApp ==
    \/ handleLoginSuccess
    \/ \E imageData \in Uploads : handleImagesUpload(imageData)
    \/ \E mode \in {"edit", "animate"} : SubmitStart(mode)
    \/ \E ok \in Outcomes : SubmitSettle(ok)
    \/ EditUndoClick
    \/ EditRedoClick
    \/ AutoSaveFires
    \/ \E session \in saving : AutoSaveResumes(session)
    \/ handleLogout
    \/ handleDismissSession
    \/ handleRestoreSession

SpecApp == InitApp /\ [][NextApp]_vars

(***************************************************************************)
(* Vocabulary of the properties.                                           *)
(***************************************************************************)
\* Some load has completed: the <img> element shows an image.
Loaded == imageEl.naturalWidth # 0

\* The blank snapshot the last completed load put at the bottom of the history.
LoadSnapshot == BlankBitmap(imageEl.naturalWidth, imageEl.naturalHeight)

PointerDownStep == \E c \in ClientPoints : PointerDown(c, 0)
PointerMoveStep == \E c \in ClientPoints : PointerMove(c)
PointerEndStep == PointerUp \/ PointerLeave
UndoShortcut == KeyDown("CtrlZ")
RedoShortcut == KeyDown("CtrlY")
UndoStep == UndoShortcut \/ UndoClick

\* A step that commits: the end of a stroke, or Clear.
CommitStep == (isDrawing /\ PointerEndStep) \/ Clear

\* C1: while a gesture is active (a stroke in progress, or panning), the undo
\* and redo shortcuts leave the live bitmap, the history entries and the
\* history cursor unchanged.
C1_ShortcutsIgnoredDuringGesture ==
    [][ ((isDrawing \/ isPanning) /\ (UndoShortcut \/ RedoShortcut))
            => UNCHANGED <<canvas, history>> ]_vars

\* C2: only one gesture is active at a time: the drawing flag and the
\* panning flag are never both set, and the pan-modifier pressed during a
\* stroke does not start panning.
C2_OneGestureAtATime == ~(isDrawing /\ isPanning)

\* C3: a second primary-button pointerDown while a stroke is in progress is
\* ignored: it paints nothing and leaves the stroke's last point unchanged.
C3_ReentrantDownIgnored ==
    [][ (isDrawing /\ PointerDownStep) => UNCHANGED <<canvas, lastPoint>> ]_vars

\* What a commit does to a history with cursor c: entries 0..c kept, the
\* rest dropped, a copy of the live bitmap appended, the cursor on it.
Committed(h, h2, live) ==
    /\ Len(h2.stack) = h.index + 2
    /\ \A i \in 1..(h.index + 1) : h2.stack[i] = h.stack[i]
    /\ h2.stack[h.index + 2] = live
    /\ h2.index = h.index + 1

\* C4: a drawing gesture commits exactly one history entry, at its end: no
\* pointerDown or pointerMove changes the history, the pointerUp or
\* pointerLeave that ends a stroke commits once and ends the stroke (so the
\* pointerLeave after a pointerUp finds no stroke), a pointerUp or
\* pointerLeave without a stroke commits nothing, and a tap on a freshly
\* loaded image takes the history length from 1 to 2.
C4_OneCommitPerGesture ==
    [][ /\ (PointerDownStep \/ PointerMoveStep) => UNCHANGED history
        /\ (PointerEndStep /\ ~isDrawing) => UNCHANGED history
        /\ (PointerEndStep /\ isDrawing) =>
              /\ Committed(history, history', getImageData(canvas))
              /\ ~isDrawing'
              /\ (Len(history.stack) = 1 => Len(history'.stack) = 2) ]_vars

\* A tap on a freshly loaded image has been committed.
C4_Witness ==
    /\ Loaded /\ ~isDrawing /\ lastPoint = NoPoint
    /\ Len(history.stack) = 2 /\ history.index = 1
    /\ IsBlank(history.stack[1]) /\ ~IsBlank(history.stack[2])
    /\ canvas = history.stack[2]

\* C5 as stated: in every reachable state 0 <= cursor < entries.length.
C5_CursorInRange ==
    0 <= history.index /\ history.index < Len(history.stack)

\* The history is empty with cursor -1, or the cursor is in range.
CursorInRangeOrEmpty ==
    \/ history.stack = <<>> /\ history.index = -1
    \/ 0 <= history.index /\ history.index < Len(history.stack)

\* C5 amended: the history is empty with cursor -1 until the first load
\* completes or the first commit is made; from then on it is never empty
\* again and 0 <= cursor < entries.length.
C5_CursorInRangeOnceNonEmpty ==
    [][ /\ CursorInRangeOrEmpty
        /\ CursorInRangeOrEmpty'
        /\ history.stack # <<>> => history'.stack # <<>>
        /\ (history.stack = <<>> /\ history'.stack # <<>>) => (CommitStep \/ \E img \in Images : OnLoad(img)) ]_vars

\* After two commits and two undos the cursor is back on entry 0.
C5_Witness ==
    /\ Loaded /\ history.index = 0 /\ Len(history.stack) = 3

\* C6: every commit (the end of a stroke, or Clear) with cursor c keeps
\* entries 0..c, drops every entry after c, appends a copy of the live
\* bitmap and moves the cursor to it; canRedo is false right after.
C6_CommitTruncatesAndAppends ==
    [][ CommitStep =>
            /\ Committed(history, history', getImageData(canvas'))
            /\ ~historyControls'.canRedo
            /\ historyControls'.canUndo = (history'.index > 0) ]_vars

\* A commit made on top of two entries: the cursor is on the new last entry.
C6_Witness ==
    /\ Loaded /\ ~isDrawing
    /\ Len(history.stack) = 3 /\ history.index = 2
    /\ ~historyControls.canRedo
    /\ history.stack[3] = canvas /\ history.stack[3] # history.stack[2]

\* C7: after a load, each undo that has an entry to go back to moves the
\* cursor back by one and leaves the entries alone, and the undo that
\* reaches entry 0 (the N-th undo after N commits) makes the live bitmap
\* equal to the blank snapshot taken at load.
C7_UndoAllRestoresBlank ==
    [][ (Loaded /\ UndoStep /\ history.index > 0) =>
            /\ history'.index = history.index - 1
            /\ history'.stack = history.stack
            /\ history'.index = 0 =>
                  (canvas' = LoadSnapshot /\ history.stack[1] = LoadSnapshot) ]_vars

\* Two painted commits, then two undos: the live bitmap is blank again.
C7_Witness ==
    /\ Loaded /\ ~isDrawing
    /\ Len(history.stack) = 3 /\ history.index = 0
    /\ ~IsBlank(history.stack[2]) /\ ~IsBlank(history.stack[3])
    /\ canvas = LoadSnapshot

\* The live bitmap after undo() and then, at once, redo().
RedoAfterUndo ==
    LET u == handleUndo(history, historyControls, canvas)
    IN  handleRedo(u.history, u.historyControls, u.canvas)

\* C8 as stated: in every loaded state with no gesture in progress, redo()
\* right after undo() leaves the live bitmap as it was before the undo().
C8_RedoAfterUndoRestores ==
    (Loaded /\ ~isDrawing) => RedoAfterUndo.canvas = canvas

\* C8 amended: the same, in the states where undo() has an entry to go back
\* to (cursor > 0) or there is no entry to redo (cursor on the last entry).
C8_RedoAfterEffectiveUndoRestores ==
    (Loaded /\ ~isDrawing
       /\ (history.index > 0 \/ history.index = Len(history.stack) - 1))
        => /\ RedoAfterUndo.canvas = canvas
           /\ RedoAfterUndo.history = history

\* No gesture, and an undo would change the live bitmap.
C8_Witness ==
    /\ Loaded /\ ~isDrawing /\ history.index > 0
    /\ handleUndo(history, historyControls, canvas).canvas # canvas
    /\ RedoAfterUndo.canvas = canvas

\* C9: undo() with the cursor on entry 0 and redo() with the cursor on the
\* last entry change nothing: not the live bitmap, the entries, the cursor
\* or the canUndo/canRedo values.
C9_BoundaryUndoRedoAreNoOps ==
    LET now == [history |-> history, historyControls |-> historyControls,
                canvas |-> canvas]
    IN  /\ history.index = 0 =>
              handleUndo(history, historyControls, canvas) = now
        /\ history.index = Len(history.stack) - 1 =>
              handleRedo(history, historyControls, canvas) = now

\* The cursor is on entry 0 with entries to redo, in the middle of a stroke
\* that has painted: an undo here has something it must not touch.
C9_Witness ==
    /\ Loaded /\ history.index = 0 /\ historyControls.canRedo
    /\ isDrawing /\ ~IsBlank(canvas)

\* C10 as stated: Clear on an already blank bitmap makes the history one
\* entry longer, and the entry at the new cursor is blank.
C10_ClearOnBlankGrowsHistory ==
    [][ (Clear /\ Loaded /\ IsBlank(canvas)) =>
            /\ Len(history'.stack) = Len(history.stack) + 1
            /\ IsBlank(history'.stack[history'.index + 1]) ]_vars

\* C10 amended: Clear on an already blank bitmap commits a blank snapshot at
\* cursor + 1, dropping the entries after the cursor: the history length
\* becomes cursor + 2, which is one more than before exactly when there was
\* no entry to redo.
C10_ClearOnBlankCommits ==
    [][ (Clear /\ Loaded /\ IsBlank(canvas)) =>
            /\ Len(history'.stack) = history.index + 2
            /\ history'.index = history.index + 1
            /\ IsBlank(history'.stack[history'.index + 1])
            /\ (Len(history'.stack) = Len(history.stack) + 1)
                  = (history.index = Len(history.stack) - 1) ]_vars

\* Two blank entries in a row with the cursor on the second: a Clear of a
\* blank bitmap has been committed.
C10_Witness ==
    /\ Loaded /\ history.index >= 1
    /\ IsBlank(history.stack[history.index]) /\ IsBlank(history.stack[history.index + 1])
    /\ IsBlank(canvas) /\ ~historyControls.canRedo

\* C11: Save Mask before any load has completed delivers no mask to onSave;
\* a mask is delivered only once a load has completed.
C11_NoMaskBeforeLoad == savedMask # NoMask => Loaded

\* C12: when a load completes, whatever the bitmap and the history before
\* it, the live bitmap is blank and has the size of the image, the history
\* is one blank entry of that size with the cursor on it, and canUndo and
\* canRedo are false.
C12_LoadStartsOver ==
    [][ \A img \in Images : OnLoad(img) =>
            /\ canvas' = BlankBitmap(img.naturalWidth, img.naturalHeight)
            /\ history' = [stack |-> << BlankBitmap(img.naturalWidth,
                                                    img.naturalHeight) >>,
                           index |-> 0]
            /\ historyControls' = [canUndo |-> FALSE, canRedo |-> FALSE] ]_vars

\* The load of the second image has completed in the middle of a stroke
\* begun on the first: the stroke's last point is still that of the first
\* image, the bitmap and the history are those of a fresh load.
C12_Witness ==
    /\ isDrawing /\ lastPoint = <<25, 25>>
    /\ srcChanges = 1 /\ loading = {}
    /\ imageEl = [naturalWidth |-> 50, naturalHeight |-> 50]
    /\ canvas = BlankBitmap(50, 50)
    /\ history = [stack |-> << BlankBitmap(50, 50) >>, index |-> 0]
    /\ historyControls = [canUndo |-> FALSE, canRedo |-> FALSE]

Abs(x) == IF x < 0 THEN -x ELSE x

\* The position in the container of a pointer at client point c.
InContainer(c) == << c[1] - container.left, c[2] - container.top >>

\* C13: in every reachable state after a load, whatever the image, the
\* container and the fits, resizes and zooms so far, the scale is in
\* [MIN_SCALE, MAX_SCALE].
C13_ScaleInRange ==
    Loaded => (MIN_SCALE <= transform.scale /\ transform.scale <= MAX_SCALE)

\* scale * factor of a zoom step: factor is zoomFactor or 1 / zoomFactor.
ScaledBy(scale, zoomIn) ==
    IF zoomIn THEN RoundDiv(scale * zoomFactor, ScaleOne)
              ELSE RoundDiv(scale * ScaleOne, zoomFactor)

Clamp(x) == IF x < MIN_SCALE THEN MIN_SCALE ELSE IF x > MAX_SCALE THEN MAX_SCALE ELSE x

\* C14: from a scale strictly inside the range, a zoom step sets the scale
\* to clamp(scale * factor, MIN_SCALE, MAX_SCALE): a step whose scaled value
\* overshoots a bound lands exactly on that bound.
C14_ZoomClampsToRange ==
    (MIN_SCALE < transform.scale /\ transform.scale < MAX_SCALE) =>
        \A c \in ClientPoints, zoomIn \in BOOLEAN :
            handleWheel(transform, c, zoomIn, container).scale
                = Clamp(ScaledBy(transform.scale, zoomIn))

\* (m - o2) / s2 = (m - o) / s, to the half pixel an offset is rounded to.
SameImagePoint(m, o, s, o2, s2) ==
    2 * Abs((m - o2) * s - (m - o) * s2) <= s

\* C15: whenever a wheel zoom changes the scale, the image-space point under
\* the cursor is the same before and after it: with m the cursor position
\* in the container, (m - offset') / scale' = (m - offset) / scale on each
\* axis.
C15_ZoomKeepsPointUnderCursor ==
    \A c \in ClientPoints, zoomIn \in BOOLEAN :
        LET t == handleWheel(transform, c, zoomIn, container)
            m == InContainer(c)
        IN  t.scale # transform.scale =>
              /\ SameImagePoint(m[1], transform.offsetX, transform.scale,
                                t.offsetX, t.scale)
              /\ SameImagePoint(m[2], transform.offsetY, transform.scale,
                                t.offsetY, t.scale)

\* A wheel zoom in at (33, 54) has acted on the fit of the 100x50 image.
C15_Witness ==
    /\ imageEl = [naturalWidth |-> 100, naturalHeight |-> 50]
    /\ container = ContainerRect
    /\ viewOps = 1
    /\ transform = [scale |-> 1100, offsetX |-> -3, offsetY |-> 22]

\* The transform after a zoom at c and the opposite zoom at the same c.
ThereAndBack(t, c, zoomIn) ==
    handleWheel(handleWheel(t, c, zoomIn, container), c, ~zoomIn, container)

\* Equal transforms, to the rounding of the two steps between them: a
\* thousandth of scale, a pixel of offset.
SameTransform(t, u) ==
    /\ Abs(t.scale - u.scale) <= 1
    /\ Abs(t.offsetX - u.offsetX) <= 1
    /\ Abs(t.offsetY - u.offsetY) <= 1

\* C16 as stated: from every reachable transform, a zoom at p by f followed
\* by a zoom at the same p by 1/f returns the scale and the offset to their
\* original values.
C16_ZoomRoundTrip ==
    \A c \in ClientPoints, zoomIn \in BOOLEAN :
        SameTransform(ThereAndBack(transform, c, zoomIn), transform)

\* C16 amended: the same, from the transforms where both zooms change the
\* scale (neither is dropped by the range test).
C16_AppliedZoomRoundTrip ==
    \A c \in ClientPoints, zoomIn \in BOOLEAN :
        LET there == handleWheel(transform, c, zoomIn, container)
            back == handleWheel(there, c, ~zoomIn, container)
        IN  (there.scale # transform.scale /\ back.scale # there.scale)
                => SameTransform(back, transform)

\* A wheel zoom in at (33, 54) and a wheel zoom out at (33, 54) have acted
\* on the fit of the 100x50 image, and the transform is the fit again.
C16_Witness ==
    /\ imageEl = [naturalWidth |-> 100, naturalHeight |-> 50]
    /\ container = ContainerRect
    /\ viewOps = 2
    /\ transform = [scale |-> 1000, offsetX |-> 0, offsetY |-> 25]

\* A step that fits the image to the container.
FitStep ==
    \/ \E img \in ViewImages : OnLoad(img)
    \/ ResetView
    \/ \E rect \in Containers : Resize(rect)

\* size * scale = room, to the half thousandth a scale is rounded to.
Fills(size, scale, room) == 2 * Abs(size * scale - room * ScaleOne) <= size

\* offset = (room - size * scale) / 2, to the half pixel an offset is
\* rounded to: the margins before and after the image are equal.
Centred(offset, size, scale, room) ==
    Abs(2 * ScaleOne * offset - (room * ScaleOne - size * scale)) <= ScaleOne

\* t fits an image in a container of rectangle rect: the scale is
\* min(width ratio, height ratio, 1), the image is centred on each axis.
Fits(t, img, rect) ==
    /\ t.scale <= ScaleOne
    /\ 2 * img.naturalWidth * t.scale <= 2 * rect.width * ScaleOne + img.naturalWidth
    /\ 2 * img.naturalHeight * t.scale <= 2 * rect.height * ScaleOne + img.naturalHeight
    /\ \/ t.scale = ScaleOne
       \/ Fills(img.naturalWidth, t.scale, rect.width)
       \/ Fills(img.naturalHeight, t.scale, rect.height)
    /\ Centred(t.offsetX, img.naturalWidth, t.scale, rect.width)
    /\ Centred(t.offsetY, img.naturalHeight, t.scale, rect.height)

\* C17: a fit (on load, on Reset View, on resize) of a loaded image sets
\* scale = min(containerWidth / imageWidth, containerHeight / imageHeight, 1)
\* and offset = (container - image * scale) / 2 on each axis: the image is
\* centred, never upscaled, never larger than the container; a 400x400
\* image in a 400x400 container gets scale 1 and offset (0, 0).
C17_FitCentresWithoutUpscaling ==
    [][ (FitStep /\ imageEl'.naturalWidth # 0) =>
            /\ Fits(transform', imageEl', container')
            /\ (/\ imageEl'.naturalWidth = 400 /\ imageEl'.naturalHeight = 400
                /\ container'.width = 400 /\ container'.height = 400)
                 => transform' = [scale |-> ScaleOne, offsetX |-> 0, offsetY |-> 0]
      ]_vars

\* The 400x400 image is fitted in the 400x400 container.
C17_Witness ==
    /\ imageEl = [naturalWidth |-> 400, naturalHeight |-> 400]
    /\ container.width = 400 /\ container.height = 400
    /\ transform = [scale |-> ScaleOne, offsetX |-> 0, offsetY |-> 0]

\* C18: after a load has completed, in every reachable state (whatever the
\* strokes, clears, undos, redos, zooms, pans and resizes since) the width
\* and height of the mask bitmap, and of the raster Save Mask would export,
\* are the natural width and height of the loaded image.
C18_BitmapHasImageSize ==
    Loaded =>
        /\ canvas.width = imageEl.naturalWidth
        /\ canvas.height = imageEl.naturalHeight
        /\ toDataURL(canvas).width = imageEl.naturalWidth
        /\ toDataURL(canvas).height = imageEl.naturalHeight

\* A stroke has been committed on the 100x50 image and the view zoomed in.
C18_Witness ==
    /\ imageEl = [naturalWidth |-> 100, naturalHeight |-> 50]
    /\ canvas.width = 100 /\ canvas.height = 50
    /\ Len(history.stack) = 2 /\ ~IsBlank(canvas)
    /\ viewOps = 1 /\ transform.scale > ScaleOne

\* A pointerdown that starts painting, and a pointermove that paints.
StrokeStartStep ==
    ~isPanning /\ isDrawing' /\ lastPoint' # NoPoint /\ PointerDownStep
StrokeMoveStep ==
    /\ isDrawing /\ ~isPanning /\ lastPoint # NoPoint /\ lastPoint' # NoPoint
    /\ PointerMoveStep

\* The image-space width of the brush at the scale in force.
BrushWidth == RoundDiv(brushSize * ScaleOne, transform.scale)

\* Whether painting over pixel s of cv changes it: drawing raises an alpha
\* below the maximum, erasing lowers an alpha above zero.
Paintable(cv, s) == IF isErasing THEN cv.data[s] > 0 ELSE cv.data[s] < AlphaLevels

\* cv2 is cv with the segment p1-p2 painted at the given line width: the
\* pixels changed are the paintable ones that the line covers.
PaintedAt(cv, cv2, p1, p2, width) ==
    \A s \in DOMAIN cv.data :
        cv2.data[s] # cv.data[s] <=> (Covers(s, p1, p2, width) /\ Paintable(cv, s))

\* C19: every painted segment, the initial dot of a stroke included, has
\* the image-space line width brushSize / scale of the scale in force when
\* it is painted; a wheel zoom in the middle of a stroke leaves the pixels
\* already painted unchanged.
C19_WidthFollowsScale ==
    [][ /\ StrokeStartStep =>
              PaintedAt(canvas, canvas', lastPoint', lastPoint', BrushWidth)
        /\ StrokeMoveStep =>
              PaintedAt(canvas, canvas', lastPoint, lastPoint', BrushWidth)
        /\ (/\ transform' # transform
            /\ \E c \in WheelPoints, zoomIn \in BOOLEAN : Wheel(c, zoomIn))
              => UNCHANGED canvas ]_vars

\* A stroke begun on the 100x50 image at scale 1 has gone on after a wheel
\* zoom in: its last point is the image point under (83, 54) at scale 1.1.
C19_Witness ==
    /\ imageEl = [naturalWidth |-> 100, naturalHeight |-> 50]
    /\ isDrawing /\ lastPoint = <<71, 25>>
    /\ transform.scale = 1100 /\ viewOps = 1
    /\ \A s \in DOMAIN canvas.data : canvas.data[s] > 0

\* cv2 is cv with the segment p1-p2 of the given line width erased.
ErasedAt(cv, cv2, p1, p2, width) ==
    \A s \in DOMAIN cv.data :
        /\ Covers(s, p1, p2, width) => cv2.data[s] = 0
        /\ ~Covers(s, p1, p2, width) => cv2.data[s] = cv.data[s]
        /\ cv.data[s] = 0 => cv2.data[s] = 0

\* C20: an erase segment makes every pixel it covers fully transparent,
\* whatever the brush opacity, leaves the pixels it does not cover
\* unchanged, and leaves a never-painted (transparent) pixel transparent.
C20_EraseRemovesCoverage ==
    [][ /\ (isErasing /\ StrokeStartStep) =>
              ErasedAt(canvas, canvas', lastPoint', lastPoint', BrushWidth)
        /\ (isErasing /\ StrokeMoveStep) =>
              ErasedAt(canvas, canvas', lastPoint, lastPoint', BrushWidth) ]_vars

\* A committed stroke covers both observed pixels of the 100x50 image, and
\* an erase stroke at half opacity has made one of them transparent.
C20_Witness ==
    /\ imageEl = [naturalWidth |-> 100, naturalHeight |-> 50]
    /\ isErasing /\ isDrawing /\ brushOpacity = DefaultBrushOpacity
    /\ Len(history.stack) = 2 /\ history.index = 1
    /\ \A s \in DOMAIN canvas.data : history.stack[2].data[s] > 0
    /\ canvas.data[<<25, 25>>] = 0
    /\ canvas.data[<<75, 25>>] > 0

\* No gesture is in progress.
Idle == ~isDrawing /\ ~isPanning /\ lastPoint = NoPoint

\* A panning gesture is in progress: the pan-modifier is held and the
\* pointer is down.
PanInProgress == isPanning /\ lastPoint # NoPoint

\* C21: the key-up of the pan-modifier while a stroke is in progress is a
\* no-op: the stroke goes on and its last point is retained.
C21_PanKeyUpKeepsStroke ==
    [][ (isDrawing /\ KeyUp("Space")) => UNCHANGED <<isDrawing, lastPoint>> ]_vars

\* C22: releasing the pan-modifier during a panning gesture (pointer still
\* down) returns the editor to Idle, so that the following pointerUp or
\* pointerLeave finds no stroke to commit.
C22_PanReleaseReturnsToIdle ==
    [][ (PanInProgress /\ KeyUp("Space")) => Idle' ]_vars

\* C23: a wheel event, whatever the gesture, changes only the viewport
\* transform: the drawing flag, the panning flag, the last point, the bitmap
\* and the history are unchanged.
C23_WheelChangesOnlyTransform ==
    [][ (/\ transform' # transform
         /\ \E c \in WheelPoints, zoomIn \in BOOLEAN : Wheel(c, zoomIn))
            => UNCHANGED <<isDrawing, isPanning, lastPoint, canvas, history>> ]_vars

\* A wheel zoom out has acted in the middle of a stroke, which goes on.
C23_Witness ==
    /\ Loaded /\ isDrawing /\ ~isPanning /\ lastPoint # NoPoint
    /\ viewOps = 1 /\ transform.scale < ScaleOne
    /\ ~IsBlank(canvas)

\* C24: a pointerMove of a panning gesture adds the pointer's displacement
\* to the offset (so that the offset is that of the start of the gesture
\* plus the displacement since, unclamped) and leaves the scale, the bitmap
\* and the history unchanged; the pointerUp or pointerLeave that ends the
\* gesture commits no history entry.
C24_PanAddsDisplacement ==
    [][ /\ (PanInProgress /\ PointerMoveStep) =>
              /\ transform'.offsetX - lastPoint'[1] = transform.offsetX - lastPoint[1]
              /\ transform'.offsetY - lastPoint'[2] = transform.offsetY - lastPoint[2]
              /\ transform'.scale = transform.scale
              /\ UNCHANGED <<canvas, history>>
        /\ (PanInProgress /\ PointerEndStep) => UNCHANGED history ]_vars

\* C25: in every state after a load in which no stroke is in progress, the
\* live bitmap is the history entry at the cursor.
C25_LiveBitmapIsCursorEntry ==
    (Loaded /\ ~isDrawing) => canvas = history.stack[history.index + 1]

\* A stroke and a Clear have been committed and the Clear undone.
C25_Witness ==
    /\ Loaded /\ ~isDrawing
    /\ Len(history.stack) = 3 /\ history.index = 1
    /\ IsBlank(history.stack[3])
    /\ ~IsBlank(canvas) /\ canvas = history.stack[2]

\* C28: when the image source has changed while an earlier image was still
\* loading, once no load is in flight the bitmap has the size of the image
\* requested last and the history starts with the blank bitmap of that
\* size, whichever load completed last.
C28_LastRequestedImageWins ==
    (Mounted /\ srcChanges > 0 /\ loading = {}) =>
        /\ canvas.width = imageSrc.naturalWidth
        /\ canvas.height = imageSrc.naturalHeight
        /\ history.stack[1] = BlankBitmap(imageSrc.naturalWidth,
                                         imageSrc.naturalHeight)

\* The centre of the container, in the container.
ContainerCentre == << container.width \div 2, container.height \div 2 >>

\* C30: a Zoom In or Zoom Out button that changes the scale is anchored at
\* the centre of the container, wherever the container is on the page: the
\* image-space point displayed at the centre is the same before and after.
C30_ButtonZoomKeepsCentre ==
    \A zoomIn \in BOOLEAN :
        LET t == handleZoom(transform, zoomIn, container)
            m == ContainerCentre
        IN  t.scale # transform.scale =>
              /\ SameImagePoint(m[1], transform.offsetX, transform.scale,
                                t.offsetX, t.scale)
              /\ SameImagePoint(m[2], transform.offsetY, transform.scale,
                                t.offsetY, t.scale)

\* The batch grid is rendered: several originals, some edit results, no submit
\* in flight.  It shows editedImages[index] next to originalImages[index].
BatchShown ==
    /\ Len(originalImages) > 1
    /\ Len(editHistory.present) > 0
    /\ submission = NoSubmission

\* C26: in a batch edit, the result stored and displayed at position i is the
\* edit of original image i, whichever remote calls succeeded or failed.
C26_ResultsAlignWithOriginals ==
    BatchShown =>
        \A i \in 1..Len(editHistory.present) :
            /\ i <= Len(originalImages)
            /\ editHistory.present[i].editOf = originalImages[i]

\* C27: after a logout or a dismissal of the restore prompt, no autosave
\* write that was scheduled or running before it stores a session.
C27_NoSaveAfterDiscard ==
    storage # NoSession => ~storage.stale

\* C29: in the edit-result history, undo then redo restores past, present and
\* future when past is non-empty; undo with empty past and redo with empty
\* future change nothing; a submit with a successful edit empties future, and
\* a submit without one leaves past, present and future unchanged.
C29_EditHistoryLaws ==
    [][ /\ Len(editHistory.past) > 0 => redoEdit(undoEdit(editHistory)) = editHistory
        /\ Len(editHistory.past) = 0 => undoEdit(editHistory) = editHistory
        /\ Len(editHistory.future) = 0 => redoEdit(editHistory) = editHistory
        /\ \A ok \in Outcomes :
              SubmitSettle(ok) =>
                  IF submission.mode = "edit" /\ ok # {}
                  THEN editHistory'.future = <<>>
                  ELSE UNCHANGED editHistory
      ]_vars

\* A third submit has succeeded after the second one was undone: its results
\* follow those of the first, and the undone results are gone.
C29_Witness ==
    /\ submission = NoSubmission
    /\ Len(editHistory.past) = 1
    /\ editHistory.past[1][1].round = 1
    /\ editHistory.present[1].round = 3
    /\ editHistory.future = <<>>

====
